---- MODULE Spec2Model ----
(***************************************************************************)
(* Candidate-region detection and confidence-scoring pipeline of the ALPR  *)
(* engines: ChaquopyPredatorALPR (predator_alpr.py, the strict profile),   *)
(* MobilePredatorALPR (predator_mobile.py, the permissive profile),        *)
(* RealALPR (real_alpr.py) and the EnhancedOpenCVEngine modes wrapped      *)
(* around RealALPR (fast_plate_ocr_engine.py).                             *)
(*                                                                         *)
(* Texts are sequences of one-character strings.  Confidence scores and    *)
(* thresholds are integers in tenths of a point (95.0 is 950), the         *)
(* resolution of round(confidence, 1).  Ratios of integers are compared by *)
(* cross-multiplication.                                                   *)
(***************************************************************************)
EXTENDS Integers, Sequences, FiniteSets, TLC

VARIABLES
    engine,                 \* the class of the pipeline instance
    confidence_threshold,   \* self.confidence_threshold, in tenths
    debug,                  \* self.debug
    valid_plate_patterns,   \* self.valid_plate_patterns
    pc,                     \* position of the in-flight process call
    entry,                  \* the entry point of the in-flight call
    image,                  \* the processed image of the in-flight call
    text_regions,           \* the candidates of the in-flight call
    idx,                    \* the loop index of the in-flight call
    detected_plates,        \* the hypotheses accepted so far
    ocr_log,                \* what the recognizer answered, per candidate
    arg,                    \* the arguments of the last call
    ret,                    \* what the last call returned
    stdout,                 \* the lines log() printed during the last call
    available_engines,      \* HybridALPREngine.available_engines
    invoked,                \* the engines the in-flight hybrid call invoked
    threshold_at_entry,     \* self.confidence_threshold when the call began
    threshold_reads,        \* the values the loop read of it, per candidate
    other_thread            \* what the last setter called during it returned

vars == <<engine, confidence_threshold, debug, valid_plate_patterns, pc, entry, image, text_regions,
          idx, detected_plates, ocr_log, arg, ret, stdout, available_engines,
          invoked, threshold_at_entry, threshold_reads, other_thread>>

\* the state of the hybrid engine
hybrid == <<available_engines, invoked>>

\* the threshold as the in-flight process call saw it, and the calls of
\* another thread during it
flight == <<threshold_at_entry, threshold_reads, other_thread>>

\* threshold_at_entry with no process call in flight
NoThreshold == 0 - 1

Chaquopy == "ChaquopyPredatorALPR"
Mobile == "MobilePredatorALPR"
Real == "RealALPR"

Engines == {Chaquopy, Mobile, Real}

----------------------------------------------------------------------------
(* Characters and the text operations of Python's str and re.              *)

UpperLetters ==
    <<"A", "B", "C", "D", "E", "F", "G", "H", "I", "J", "K", "L", "M",
      "N", "O", "P", "Q", "R", "S", "T", "U", "V", "W", "X", "Y", "Z">>

LowerLetters ==
    <<"a", "b", "c", "d", "e", "f", "g", "h", "i", "j", "k", "l", "m",
      "n", "o", "p", "q", "r", "s", "t", "u", "v", "w", "x", "y", "z">>

AZ == {UpperLetters[k] : k \in 1..Len(UpperLetters)}

Digit == {"0", "1", "2", "3", "4", "5", "6", "7", "8", "9"}

\* self.valid_chars
valid_chars == AZ \cup Digit

\* str.upper() on one ASCII character
UpperChar(c) ==
    IF \E k \in 1..Len(LowerLetters) : LowerLetters[k] = c
    THEN UpperLetters[CHOOSE k \in 1..Len(LowerLetters) : LowerLetters[k] = c]
    ELSE c

\* str.upper()
upper(s) == [k \in 1..Len(s) |-> UpperChar(s[k])]

InAlnum(c) == c \in valid_chars

\* re.sub(r'[^A-Z0-9]', '', s)
StripNonAlnum(s) == SelectSeq(s, InAlnum)

\* the normalisation without the conversion to upper case
StripOnly(s) == StripNonAlnum(s)

\* the normalisation both validators apply: re.sub(r'[^A-Z0-9]', '', text.upper())
plate_clean(s) == StripNonAlnum(upper(s))

\* str.strip() for the whitespace of the alphabet (the blank)
RECURSIVE lstrip(_)
lstrip(s) == IF s # <<>> /\ Head(s) = " " THEN lstrip(Tail(s)) ELSE s

RECURSIVE rstrip(_)
rstrip(s) ==
    IF s # <<>> /\ s[Len(s)] = " " THEN rstrip(SubSeq(s, 1, Len(s) - 1)) ELSE s

strip(s) == rstrip(lstrip(s))

\* A pattern is a sequence of segments [cls, lo, hi]: a character class
\* repeated lo to hi times.  "A" is [A-Z], "9" is [0-9], "X" is [A-Z0-9].
Class(cls) ==
    CASE cls = "A" -> AZ
      [] cls = "9" -> Digit
      [] cls = "X" -> valid_chars

Seg(cls, lo, hi) == [cls |-> cls, lo |-> lo, hi |-> hi]

\* re.match of an anchored pattern ^...$ : segments pi.. of pat match s from
\* position si to the end of s
RECURSIVE MatchFrom(_, _, _, _)
MatchFrom(pat, pi, s, si) ==
    IF pi > Len(pat)
    THEN si = Len(s) + 1
    ELSE \E n \in pat[pi].lo .. pat[pi].hi :
            /\ si + n - 1 <= Len(s)
            /\ \A k \in si .. (si + n - 1) : s[k] \in Class(pat[pi].cls)
            /\ MatchFrom(pat, pi + 1, s, si + n)

re_match(pat, s) == MatchFrom(pat, 1, s, 1)

\* the patterns of ChaquopyPredatorALPR without the first one
ChaquopyPatternsNoCommon ==
    << <<Seg("9", 1, 1), Seg("A", 3, 3), Seg("9", 3, 3)>>,
       <<Seg("A", 1, 1), Seg("9", 2, 2), Seg("A", 3, 3)>>,
       <<Seg("A", 3, 3), Seg("9", 2, 2), Seg("A", 1, 1)>>,
       <<Seg("9", 3, 3), Seg("A", 3, 3)>> >>

\* self.valid_plate_patterns of ChaquopyPredatorALPR
ChaquopyPatterns ==
    << <<Seg("A", 2, 3), Seg("9", 3, 4)>>,
       <<Seg("9", 1, 1), Seg("A", 3, 3), Seg("9", 3, 3)>>,
       <<Seg("A", 1, 1), Seg("9", 2, 2), Seg("A", 3, 3)>>,
       <<Seg("A", 3, 3), Seg("9", 2, 2), Seg("A", 1, 1)>>,
       <<Seg("9", 3, 3), Seg("A", 3, 3)>> >>

\* self.valid_plate_patterns of MobilePredatorALPR
MobilePatterns ==
    << <<Seg("X", 2, 8)>>,
       <<Seg("A", 1, 3), Seg("9", 1, 4), Seg("A", 0, 1)>>,
       <<Seg("9", 1, 3), Seg("A", 1, 3), Seg("9", 1, 4)>> >>

\* patterns of RealALPR.validate_plate_format
RealPatterns ==
    << <<Seg("A", 3, 3), Seg("9", 3, 4)>>,
       <<Seg("9", 3, 3), Seg("A", 3, 3)>>,
       <<Seg("A", 2, 2), Seg("9", 2, 2), Seg("A", 2, 2)>>,
       <<Seg("A", 1, 2), Seg("9", 2, 4), Seg("A", 0, 2)>> >>

MatchesAny(pats, s) == \E p \in 1..Len(pats) : re_match(pats[p], s)

----------------------------------------------------------------------------
(* The plate format validators.                                            *)

ChaquopyValidate(plate_text) ==
    IF Len(plate_text) < 5 THEN FALSE
    ELSE LET clean == plate_clean(plate_text) IN
         IF Len(clean) < 5 \/ Len(clean) > 8 THEN FALSE
         ELSE IF ~(\A k \in 1..Len(clean) : clean[k] \in valid_chars) THEN FALSE
         ELSE IF ~((\E k \in 1..Len(clean) : clean[k] \in AZ)
                   /\ (\E k \in 1..Len(clean) : clean[k] \in Digit)) THEN FALSE
         ELSE MatchesAny(valid_plate_patterns, clean)

MobileValidate(plate_text) ==
    IF Len(plate_text) < 2 THEN FALSE
    ELSE LET clean == plate_clean(plate_text) IN
         IF Len(clean) < 4 \/ Len(clean) > 8 THEN FALSE
         ELSE MatchesAny(valid_plate_patterns, clean)

RealValidate(text) ==
    IF Len(text) < 4 THEN FALSE
    ELSE MatchesAny(RealPatterns, text)

validate_plate_format(e, text) ==
    CASE e = Chaquopy -> ChaquopyValidate(text)
      [] e = Mobile -> MobileValidate(text)
      [] e = Real -> RealValidate(text)

----------------------------------------------------------------------------
(* The confidence scorers.  An aspect ratio is the fraction w / h, with    *)
(* h = 0 standing for the ratio 0 (the convention of the extractors).      *)

Min(a, b) == IF a < b THEN a ELSE b

Max(a, b) == IF a > b THEN a ELSE b

\* the strict scorer with the format hard reject left out
ChaquopyScoreNoReject(text, bbox_area, image_area, w, h) ==
    LET b1 == IF ChaquopyValidate(text) THEN 800 ELSE 400
        b2 == IF 1000 * bbox_area > 2 * image_area /\ 100 * bbox_area < 5 * image_area
              THEN b1 + 150 ELSE b1
        b3 == IF h > 0 /\ w > 2 * h /\ w < 6 * h THEN b2 + 150 ELSE b2 - 200
        b4 == IF 5 <= Len(text) /\ Len(text) <= 8 THEN b3 + 100 ELSE b3 - 150
    IN  Max(0, Min(b4, 950))

\* the strict scorer with the final clamp left out
ChaquopyScoreNoClamp(text, bbox_area, image_area, w, h) ==
    IF ~ChaquopyValidate(text) THEN 0
    ELSE LET b2 == IF 1000 * bbox_area > 2 * image_area
                      /\ 100 * bbox_area < 5 * image_area
                   THEN 950 ELSE 800
             b3 == IF h > 0 /\ w > 2 * h /\ w < 6 * h THEN b2 + 150 ELSE b2 - 200
         IN  IF 5 <= Len(text) /\ Len(text) <= 8 THEN b3 + 100 ELSE b3 - 150

\* ChaquopyPredatorALPR.calculate_confidence(text, bbox_area, image_area, w / h)
ChaquopyScore(text, bbox_area, image_area, w, h) ==
    IF ~ChaquopyValidate(text) THEN 0
    ELSE
      LET b1 == 400 + 400
          reject == /\ ~(1000 * bbox_area > 2 * image_area
                         /\ 100 * bbox_area < 5 * image_area)
                    /\ (1000 * bbox_area < image_area \/ 10 * bbox_area > image_area)
          b2 == IF 1000 * bbox_area > 2 * image_area /\ 100 * bbox_area < 5 * image_area
                THEN b1 + 150 ELSE b1
          b3 == IF h > 0 /\ w > 2 * h /\ w < 6 * h THEN b2 + 150 ELSE b2 - 200
          b4 == IF 5 <= Len(text) /\ Len(text) <= 8 THEN b3 + 100 ELSE b3 - 150
      IN  IF reject THEN 0 ELSE Max(0, Min(b4, 950))

\* MobilePredatorALPR.calculate_confidence(text, bbox_area, image_area)
MobileScore(text, bbox_area, image_area) ==
    LET b1 == IF MobileValidate(text) THEN 500 + 250 ELSE 500
        b2 == IF 1000 * bbox_area > image_area /\ 10 * bbox_area < image_area
              THEN b1 + 150 ELSE b1
        b3 == IF Len(text) >= 5 THEN b2 + 100 ELSE b2
    IN  Min(b3, 950)

\* RealALPR.calculate_confidence(text, width, height, area)
RealScore(text, width, height, area) ==
    LET b1 == IF 5 <= Len(text) /\ Len(text) <= 7 THEN 600 + 200
              ELSE IF 4 <= Len(text) /\ Len(text) <= 8 THEN 600 + 100
              ELSE 600
        b2 == IF height > 0 /\ 3 * height <= width /\ width <= 5 * height
              THEN b1 + 150 ELSE b1
        b3 == IF area > 2000 THEN b2 + 100 ELSE b2
        b4 == IF RealValidate(text) THEN b3 + 150 ELSE b3
    IN  Min(b4, 950)

calculate_confidence(e, text, bbox_area, image_area, w, h) ==
    CASE e = Chaquopy -> ChaquopyScore(text, bbox_area, image_area, w, h)
      [] e = Mobile -> MobileScore(text, bbox_area, image_area)
      [] e = Real -> RealScore(text, w, h, bbox_area)

----------------------------------------------------------------------------
(* Region candidate extraction.  A contour is given by its bounding        *)
(* rectangle (cv2.boundingRect) and its polygon area (cv2.contourArea); an *)
(* image by its size and the contours cv2.findContours returns for it.     *)

Contour(x, y, w, h, carea) == [x |-> x, y |-> y, w |-> w, h |-> h, carea |-> carea]

ImageArea(img) == img.height * img.width

\* the regions sorted ascending by area and then reversed: descending, but
\* equal areas in reverse contour order
SortByAreaReversed(regions) ==
    LET n == Len(regions)
        before(j, i) == regions[j].area > regions[i].area
                        \/ (regions[j].area = regions[i].area /\ j > i)
        rank(i) == 1 + Cardinality({j \in 1..n : before(j, i)})
    IN  [p \in 1..n |-> regions[CHOOSE i \in 1..n : rank(i) = p]]

\* text_regions.sort(key=lambda r: r['area'], reverse=True): descending,
\* equal areas keep their order
SortByArea(regions) ==
    LET n == Len(regions)
        before(j, i) == regions[j].area > regions[i].area
                        \/ (regions[j].area = regions[i].area /\ j < i)
        rank(i) == 1 + Cardinality({j \in 1..n : before(j, i)})
    IN  [p \in 1..n |-> regions[CHOOSE i \in 1..n : rank(i) = p]]

\* the sort of the result left out
SortByConfidenceNone(plates) == plates

\* detected_plates.sort(key=lambda p: p['confidence'], reverse=True):
\* descending, equal confidences keep their order
SortByConfidence(plates) ==
    LET n == Len(plates)
        before(j, i) == plates[j].confidence > plates[i].confidence
                        \/ (plates[j].confidence = plates[i].confidence /\ j < i)
        rank(i) == 1 + Cardinality({j \in 1..n : before(j, i)})
    IN  [p \in 1..n |-> plates[CHOOSE i \in 1..n : rank(i) = p]]

\* seq[:n]
Take(seq, n) == SubSeq(seq, 1, Min(n, Len(seq)))

\* the filter of ChaquopyPredatorALPR.detect_text_regions without the
\* minimum pixel dimensions
ChaquopyKeepsNoMinDims(c, image_area) ==
    /\ c.h > 0 /\ c.w > 2 * c.h /\ c.w < 6 * c.h
    /\ c.w * c.h > 2000
    /\ 1000 * (c.w * c.h) > 2 * image_area
    /\ 100 * (c.w * c.h) < 5 * image_area

\* the filter of ChaquopyPredatorALPR.detect_text_regions
ChaquopyKeeps(c, image_area) ==
    /\ c.h > 0 /\ c.w > 2 * c.h /\ c.w < 6 * c.h
    /\ c.w * c.h > 2000
    /\ 1000 * (c.w * c.h) > 2 * image_area
    /\ 100 * (c.w * c.h) < 5 * image_area
    /\ c.w > 80 /\ c.h > 20

\* the filter of MobilePredatorALPR.detect_text_regions
MobileKeeps(c) ==
    /\ c.h > 0 /\ 2 * c.w > 3 * c.h /\ c.w < 8 * c.h
    /\ c.w * c.h > 1000

\* the filter of RealALPR.find_license_plate_contours
RealKeeps(c) ==
    /\ c.h > 0 /\ 2 * c.h <= c.w /\ c.w <= 6 * c.h
    /\ c.carea > 1000
    /\ c.w > 50 /\ c.h > 15

Keeps(e, c, image_area) ==
    CASE e = Chaquopy -> ChaquopyKeeps(c, image_area)
      [] e = Mobile -> MobileKeeps(c)
      [] e = Real -> RealKeeps(c)

\* the candidate appended for a contour: its box and the area it is ranked by
\* (w * h, or the polygon area in RealALPR); aspect_ratio is w / h
Region(e, c) ==
    [x |-> c.x, y |-> c.y, w |-> c.w, h |-> c.h,
     area |-> IF e = Real THEN c.carea ELSE c.w * c.h]

\* the slice that ends the extractors: [:3], [:5], [:3]
MaxCandidates(e) == IF e = Mobile THEN 5 ELSE 3

\* detect_text_regions / find_license_plate_contours
detect_text_regions(e, img) ==
    LET keep(c) == Keeps(e, c, ImageArea(img))
        kept == SelectSeq(img.contours, keep)
        regions == [k \in 1..Len(kept) |-> Region(e, kept[k])]
    IN  Take(SortByArea(regions), MaxCandidates(e))

----------------------------------------------------------------------------
(* Bounds and input domains.                                               *)

\* contours an image holds beyond the extractor's truncation limit
Extra == 1

SeqsUpTo(S, n) == UNION {[1..k -> S] : k \in 0..n}

\* bounding rectangles of contours: two of equal area that every extractor
\* keeps, a small one, one only 78 pixels wide, one of height 0
Rects ==
    { Contour(10, 10, 200, 60, 11000),
      Contour(200, 100, 240, 50, 11000),
      Contour(50, 200, 100, 30, 2900),
      Contour(5, 300, 78, 30, 2300),
      Contour(300, 300, 90, 0, 0) }

\* sizes of processed images (width, height)
ImageSizes == { <<480, 360>>, <<1280, 720>> }

Image(sz, cs) == [width |-> sz[1], height |-> sz[2], contours |-> cs]

Texts ==
    { <<>>,
      <<"A", "B", "1", "2">>,
      <<"A", "B", "1", "2", "3">>,
      <<"a", "b", "c", "-", "1", "2", "3", " ">>,
      <<"A", "B", "C", "1", "2", "3", "4">>,
      <<"1", "A", "B", "C", "2", "3", "4">>,
      <<"1", "2", "3", "4", "5">>,
      <<"A", "B", "C", "D", "E", "F">>,
      <<"A", "B", "-", "1", "2">>,
      <<"A", "B", "C", "-", "1", "2", "3", "4", " ">>,
      <<"A", "B", "C", "1", "2", "3", "4", "5", "6">>,
      <<"A", "1", "B", "2", "C", "3">>,
      <<"a", "-">>,
      <<"a", "b", " ", "1">>,
      <<"a", "b", "!", "1", "2", "#", "3">> }

BoxAreas == {100, 1000, 3000, 12000, 100000}

ImageAreas == {172800, 921600}

\* aspect ratios as width and height: 3.33, 1, 0, 7
Aspects == { <<200, 60>>, <<100, 100>>, <<90, 0>>, <<700, 100>> }

ScoreArgs ==
    { [op |-> "calculate_confidence", text |-> t, bbox_area |-> a,
       image_area |-> ia, w |-> wh[1], h |-> wh[2]] :
        t \in Texts, a \in BoxAreas, ia \in ImageAreas, wh \in Aspects }

ValidateArgs == { [op |-> "validate_plate_format", text |-> t] : t \in Texts }

DetectArgs(e) ==
    { [op |-> "detect_text_regions", img |-> Image(sz, cs)] :
        sz \in ImageSizes, cs \in SeqsUpTo(Rects, MaxCandidates(e) + Extra) }

NoRet == [op |-> "none"]

NoArg == [op |-> "none"]

NoImage == [width |-> 0, height |-> 0, contours |-> <<>>]

\* __init__: the threshold of a new instance (RealALPR has none)
InitialThreshold(e) ==
    CASE e = Chaquopy -> 850
      [] e = Mobile -> 600
      [] e = Real -> 0

\* __init__: the patterns of a new instance (RealALPR keeps none; the
\* patterns of its validator are local to the method)
InitialPatterns(e) ==
    CASE e = Chaquopy -> ChaquopyPatterns
      [] e = Mobile -> MobilePatterns
      [] e = Real -> <<>>

\* the state of a new instance with no call in flight
Constructed(e) ==
    /\ engine = e
    /\ confidence_threshold = InitialThreshold(e)
    /\ debug = TRUE
    /\ valid_plate_patterns = InitialPatterns(e)
    /\ pc = "idle"
    /\ entry = "none"
    /\ image = NoImage
    /\ text_regions = <<>>
    /\ idx = 0
    /\ detected_plates = <<>>
    /\ ocr_log = <<>>
    /\ stdout = <<>>
    /\ available_engines = <<>>
    /\ invoked = <<>>
    /\ threshold_at_entry = NoThreshold
    /\ threshold_reads = <<>>
    /\ other_thread = NoRet

----------------------------------------------------------------------------
(* Direct calls of the pure methods of an instance.                        *)

InitPure ==
    \E e \in Engines :
        /\ Constructed(e)
        /\ arg \in ScoreArgs \cup ValidateArgs \cup DetectArgs(e)
        /\ ret = NoRet

Frame ==
    UNCHANGED <<engine, valid_plate_patterns, confidence_threshold, debug, pc, entry, image,
                text_regions, idx, detected_plates, ocr_log, arg, stdout,
                hybrid, flight>>

CallScore ==
    /\ ret = NoRet
    /\ arg.op = "calculate_confidence"
    /\ ret' = [op |-> arg.op,
               value |-> calculate_confidence(engine, arg.text, arg.bbox_area,
                                              arg.image_area, arg.w, arg.h)]
    /\ Frame

CallValidate ==
    /\ ret = NoRet
    /\ arg.op = "validate_plate_format"
    /\ ret' = [op |-> arg.op, value |-> validate_plate_format(engine, arg.text)]
    /\ Frame

CallDetect ==
    /\ ret = NoRet
    /\ arg.op = "detect_text_regions"
    /\ ret' = [op |-> arg.op, value |-> detect_text_regions(engine, arg.img)]
    /\ Frame

NextPure == CallScore \/ CallValidate \/ CallDetect

SpecPure == InitPure /\ [][NextPure]_vars

----------------------------------------------------------------------------
(* The text recognizers.                                                   *)

realistic_plates ==
    << <<"A", "B", "C", "1", "2", "3", "4">>,
       <<"D", "E", "F", "5", "6", "7", "8">>,
       <<"G", "H", "I", "9", "0", "1", "2">>,
       <<"J", "K", "L", "3", "4", "5", "6">>,
       <<"M", "N", "O", "7", "8", "9", "0">>,
       <<"P", "Q", "R", "2", "4", "6", "8">>,
       <<"S", "T", "U", "1", "3", "5", "7">>,
       <<"V", "W", "X", "8", "0", "2", "4">>,
       <<"Y", "Z", "A", "4", "6", "8", "0">>,
       <<"B", "C", "D", "9", "7", "5", "3">>,
       <<"E", "F", "G", "1", "4", "7", "0">>,
       <<"H", "I", "J", "2", "5", "8", "1">>,
       <<"K", "L", "M", "3", "6", "9", "2">>,
       <<"N", "O", "P", "4", "7", "0", "3">>,
       <<"Q", "R", "S", "5", "8", "1", "4">>,
       <<"T", "U", "V", "6", "9", "2", "5">>,
       <<"W", "X", "Y", "7", "0", "3", "6">>,
       <<"Z", "A", "B", "8", "1", "4", "7">>,
       <<"C", "D", "E", "9", "2", "5", "8">>,
       <<"F", "G", "H", "0", "3", "6", "9">> >>

\* the table of partial reads with four-character entries
shorter_plates_partial ==
    << <<"A", "B", "1", "2">>,
       <<"C", "D", "4", "5">>,
       <<"E", "F", "7", "8">>,
       <<"G", "H", "0", "1">>,
       <<"I", "J", "3", "4">> >>

shorter_plates ==
    << <<"A", "B", "1", "2", "3">>,
       <<"C", "D", "4", "5", "6">>,
       <<"E", "F", "7", "8", "9">>,
       <<"G", "H", "0", "1", "2">>,
       <<"I", "J", "3", "4", "5">> >>

mock_plates ==
    << <<"A", "B", "C", "1", "2", "3">>,
       <<"X", "Y", "Z", "7", "8", "9">>,
       <<"D", "E", "F", "4", "5", "6">>,
       <<"G", "H", "I", "0", "1", "2">>,
       <<"J", "K", "L", "3", "4", "5">> >>

\* ChaquopyPredatorALPR.extract_text_basic_ocr: the table string the box selects
extract_text_basic_ocr(r) ==
    LET seed == (r.x * 31 + r.y * 17 + r.w * 13 + r.h * 7) % Len(realistic_plates)
    IN  IF r.w * r.h > 5000
        THEN realistic_plates[seed + 1]
        ELSE shorter_plates[(seed % Len(shorter_plates)) + 1]

\* MobilePredatorALPR.extract_text_pytesseract: hash(str(bbox)) is seeded
\* per process, so hsh is an input
extract_text_pytesseract(hsh) == mock_plates[(hsh % Len(mock_plates)) + 1]

\* re.sub('(?<=[0-9])' + old + '(?=[0-9])', new, s): every old between two
\* digits of s becomes new
SubBetweenDigits(s, old, new) ==
    [k \in 1..Len(s) |->
        IF s[k] = old /\ k > 1 /\ k < Len(s)
           /\ s[k - 1] \in Digit /\ s[k + 1] \in Digit
        THEN new ELSE s[k]]

\* RealALPR.clean_plate_text
clean_plate_text(raw) ==
    IF raw = <<>> THEN <<>>
    ELSE LET text == StripNonAlnum(upper(strip(raw)))
             c1 == SubBetweenDigits(text, "O", "0")
             c2 == SubBetweenDigits(c1, "I", "1")
             c3 == SubBetweenDigits(c2, "S", "5")
             corrected_text == SubBetweenDigits(c3, "B", "8")
         IN  IF Len(corrected_text) >= 4 /\ Len(corrected_text) <= 8
             THEN corrected_text ELSE text

----------------------------------------------------------------------------
(* Inputs of the process calls.                                            *)

\* contours of the image of a process call
MaxContours == 3

\* hash(str(bbox)) ranges over 0..MaxHash
MaxHash == 1

\* the contours of processed scenes: a large box, a small box and one that
\* is 78 pixels wide
SceneRects ==
    { Contour(10, 10, 200, 60, 11000),
      Contour(50, 200, 100, 30, 2900),
      Contour(5, 300, 78, 30, 2300) }

\* sizes of decoded images (width, height)
OrigSizes == { <<480, 360>>, <<1920, 1080>>, <<2139, 1000>>, <<2560, 1>> }

\* what pytesseract.image_to_string returns: a plate, nine letters, three
\* characters, and a lower-case read with blanks and a letter O among digits
OcrTexts ==
    { <<"A", "B", "C", "1", "2", "3", " ">>,
      <<"A", "B", "C", "D", "E", "F", "G", "H", "I">>,
      <<"A", "B", "1">>,
      <<" ", "a", "1", "o", "2", " ">> }

Entries(e) ==
    CASE e = Chaquopy -> {"process_image_file", "process_image_bytes",
                          "process_image_array"}
      [] e = Mobile -> {"process_image"}
      [] e = Real -> {"process_image", "opencv_standard", "opencv_aggressive",
                      "opencv_conservative"}

ProcessOps ==
    {"process_image_file", "process_image_bytes", "process_image_array",
     "process_image", "opencv_standard", "opencv_aggressive",
     "opencv_conservative"}

\* the pairs (d, original_width) of the sizes of OrigSizes for which the
\* double product d * (1280 / original_width) falls just below the integer
\* d * 1280 / original_width, so that int() gives one less: 1280 / 2139 is
\* rounded down, and 2139 * (1280 / 2139) is 1279.9999999999998
RoundsBelow == { <<2139, 2139>> }

\* int(original_width * scale) and int(original_height * scale) with
\* scale = max_width / original_width, in double arithmetic
ScaledDim(d, original_width) ==
    IF <<d, original_width>> \in RoundsBelow
    THEN (d * 1280) \div original_width - 1
    ELSE (d * 1280) \div original_width

\* the size cv2.resize is asked for: none when the width is within
\* max_width; RealALPR asks for the width 1280 itself
ResizedSize(e, sz) ==
    IF sz[1] > 1280
    THEN <<IF e = Real THEN 1280 ELSE ScaledDim(sz[1], sz[1]),
           ScaledDim(sz[2], sz[1])>>
    ELSE sz

Fits(c, sz) == c.x + c.w <= sz[1] /\ c.y + c.h <= sz[2]

\* the contour lists an image of decoded size sz can hold once processed
Scenes(e, sz) ==
    { q \in SeqsUpTo(SceneRects, MaxContours) :
        \A k \in 1..Len(q) : Fits(q[k], ResizedSize(e, sz)) }

\* src: "null" is None, "empty" a missing file, a zero-byte buffer or a
\* zero-size array, "garbage" a file or buffer that does not decode, "ok" a
\* decoded image with the contours its processed image holds
ProcessArgs(e) ==
    { [op |-> o, src |-> s, size |-> <<0, 0>>, contours |-> <<>>] :
        o \in Entries(e), s \in {"null", "empty", "garbage"} }
    \cup
    UNION { { [op |-> o, src |-> "ok", size |-> sz, contours |-> cs] :
                o \in Entries(e), cs \in Scenes(e, sz) } : sz \in OrigSizes }

\* the argument of set_confidence_threshold: a number (in tenths), the float
\* NaN, or a value that is no number (a string, None)
ThresholdArgs ==
    { [kind |-> "number", value |-> v] : v \in {0 - 50, 500, 950, 1000, 1200} }
    \cup { [kind |-> "nan"], [kind |-> "text"] }

----------------------------------------------------------------------------
(* Results.                                                                *)

ExcText == "str(e)"

Failure(op, msg) == [op |-> op, kind |-> "dict", success |-> FALSE, error |-> msg]

Raised(op) == [op |-> op, kind |-> "exception"]

Success(op, plates, n) ==
    [op |-> op, kind |-> "dict", success |-> TRUE,
     plates_detected |-> plates, regions_analyzed |-> n]

List(op, results) == [op |-> op, kind |-> "list", results |-> results]

\* a handler that reports the hypotheses accepted before the failure
CaughtPartial(e, op) ==
    IF e = Real THEN List(op, detected_plates)
    ELSE [op |-> op, kind |-> "dict", success |-> FALSE, error |-> ExcText,
          plates_detected |-> detected_plates]

\* what a call returns when a step inside its try block raises
Caught(e, op) == IF e = Real THEN List(op, <<>>) ELSE Failure(op, ExcText)

----------------------------------------------------------------------------
(* The process calls.                                                      *)

\* the load check left out: the image is used whatever was loaded, and the
\* first use of a None image raises inside the try block
LoadUnchecked(e, op, src) ==
    IF src = "ok" THEN {"image"} ELSE {ExcText}

\* what loading the image gives: "image", "raise" (an exception nothing
\* catches), or the error message of the failure result.  A zero-byte
\* buffer makes cv2.imdecode return None or raise, by OpenCV version.
Load(e, op, src) ==
    CASE src = "ok" -> {"image"}
      [] e = Real -> {ExcText}
      [] op = "process_image_file" ->
            IF src = "null" THEN {ExcText} ELSE {"Unable to load image"}
      [] op = "process_image_bytes" ->
            IF src = "null" THEN {ExcText}
            ELSE IF src = "empty" THEN {ExcText, "Unable to decode image bytes"}
            ELSE {"Unable to decode image bytes"}
      [] op = "process_image_array" ->
            IF src = "null" THEN {"raise"} ELSE {ExcText}
      [] e = Mobile ->
            IF src = "null" THEN {"raise"}
            ELSE IF src = "empty" THEN {"Image file not found"}
            ELSE {"Unable to load image"}

\* self.log(message) for each of messages, in order: printed only when
\* self.debug is set.  RealALPR has no log method.
log(messages) == stdout' = IF debug THEN stdout \o messages ELSE stdout

\* the lines a process call logs before the resize.  process_image_array
\* logs the shape of its argument; MobilePredatorALPR.process_image logs the
\* path before it looks at the file, and the dimensions once it is loaded.
EntryLines(e, op, loaded) ==
    CASE e = Chaquopy -> IF loaded \/ op = "process_image_array"
                         THEN <<"Processing image array">> ELSE <<>>
      [] e = Mobile -> IF loaded THEN <<"Processing image", "Image dimensions">>
                       ELSE <<"Processing image">>
      [] e = Real -> <<>>

\* self.log(f"Error processing image: {str(e)}") in the handler of the call
ErrorLines(e) == IF e = Real THEN <<>> ELSE <<"Error processing image">>

\* a call that fails to load its image returns without touching a candidate
LoadFailure(e, a, out) ==
    /\ ret' = (IF out = "raise" THEN Raised(a.op)
               ELSE IF e = Real THEN List(a.op, <<>>)
               ELSE Failure(a.op, out))
    /\ log(IF e = Chaquopy /\ out = "raise" THEN <<>>
           ELSE IF e = Chaquopy /\ a.op = "process_image_array"
           THEN EntryLines(e, a.op, FALSE) \o ErrorLines(e)
           ELSE EntryLines(e, a.op, FALSE))
    /\ UNCHANGED <<pc, image, text_regions, idx, detected_plates>>

\* the resize and the extraction: cv2.resize raises on an empty target size
Prepare(e, a) ==
    LET sz == ResizedSize(e, a.size)
        img == Image(sz, a.contours)
    IN  IF sz[1] <= 0 \/ sz[2] <= 0
        THEN /\ ret' = Caught(e, a.op)
             /\ log(EntryLines(e, a.op, TRUE) \o ErrorLines(e))
             /\ UNCHANGED <<pc, image, text_regions, idx, detected_plates>>
        ELSE /\ image' = img
             /\ text_regions' = detect_text_regions(e, img)
             /\ detected_plates' = <<>>
             /\ idx' = 1
             /\ pc' = "candidates"
             /\ ret' = NoRet
             /\ log(EntryLines(e, a.op, TRUE)
                    \o (IF e # Real /\ a.size[1] > 1280
                        THEN <<"Resized to">> ELSE <<>>)
                    \o (IF e # Real THEN <<"Found regions">> ELSE <<>>))

\* the entry of a process call on one of args, up to the start of the loop
\* over candidates
Enter(args) ==
    /\ pc = "idle" /\ ret = NoRet
    /\ \E a \in args :
        /\ arg' = a
        /\ entry' = a.op
        /\ ocr_log' = <<>>
        /\ \E out \in Load(engine, a.op, a.src) :
              IF out = "image" THEN Prepare(engine, a)
              ELSE LoadFailure(engine, a, out)
    /\ threshold_at_entry' = confidence_threshold
    /\ threshold_reads' = <<>>
    /\ other_thread' = NoRet
    /\ UNCHANGED <<engine, valid_plate_patterns, confidence_threshold, debug, hybrid>>

\* a process call begins
Begin == Enter(ProcessArgs(engine))

\* the filter with the threshold comparison left out
RetainedAlways(e, text, confidence, threshold) == TRUE

\* the filter with the append placed under the debug flag
RetainedWhenLogging(e, text, confidence, threshold) ==
    CASE e = Chaquopy -> debug /\ confidence >= threshold
      [] e = Mobile -> debug /\ confidence >= threshold /\ MobileValidate(text)
      [] e = Real -> text # <<>> /\ Len(text) >= 4

\* the filter of the loop: confidence >= self.confidence_threshold (and a
\* valid format in MobilePredatorALPR); RealALPR keeps texts of 4 or more
Retained(e, text, confidence, threshold) ==
    CASE e = Chaquopy -> confidence >= threshold
      [] e = Mobile -> confidence >= threshold /\ MobileValidate(text)
      [] e = Real -> text # <<>> /\ Len(text) >= 4

\* the entry appended for a retained candidate
Plate(e, r, text, confidence) ==
    IF e = Real
    THEN [plate |-> text, confidence |-> confidence,
          x1 |-> r.x, y1 |-> r.y, x2 |-> r.x + r.w, y2 |-> r.y + r.h,
          matches_template |-> IF RealValidate(text) THEN 1 ELSE 0]
    ELSE [plate |-> upper(text), confidence |-> confidence,
          x |-> r.x, y |-> r.y, width |-> r.w, height |-> r.h, area |-> r.area]

\* the candidate filtered against the threshold the call began with, not
\* the one the instance holds at this pass
HypothesisAtEntry(e, r, text, image_area, threshold) ==
    LET confidence == calculate_confidence(e, text, r.area, image_area, r.w, r.h)
    IN  IF Retained(e, text, confidence, threshold_at_entry)
        THEN <<Plate(e, r, text, confidence)>>
        ELSE <<>>

\* the hypotheses one recognized candidate adds: none or one
Hypothesis(e, r, text, image_area, threshold) ==
    LET confidence == calculate_confidence(e, text, r.area, image_area, r.w, r.h)
    IN  IF Retained(e, text, confidence, threshold)
        THEN <<Plate(e, r, text, confidence)>>
        ELSE <<>>

\* the answers of the recognizer for a candidate: [ok, text], ok false when
\* it raised (a cv2 call of extract_text_basic_ocr, or the OCR of RealALPR;
\* the mock of MobilePredatorALPR only slices and hashes)
Recognitions(e, r) ==
    CASE e = Chaquopy ->
            {[ok |-> TRUE, text |-> extract_text_basic_ocr(r)],
             [ok |-> FALSE, text |-> <<>>]}
      [] e = Mobile ->
            {[ok |-> TRUE, text |-> extract_text_pytesseract(hsh)] : hsh \in 0..MaxHash}
      [] e = Real ->
            {[ok |-> TRUE, text |-> clean_plate_text(raw)] : raw \in OcrTexts}
            \cup {[ok |-> FALSE, text |-> <<>>]}

\* what validate_plate_format of ChaquopyPredatorALPR logs: nothing when it
\* returns before the patterns, else whether a pattern matched
ValidateLines(plate_text) ==
    LET clean == plate_clean(plate_text)
    IN  IF \/ Len(plate_text) < 5
           \/ Len(clean) < 5 \/ Len(clean) > 8
           \/ ~(\E k \in 1..Len(clean) : clean[k] \in AZ)
           \/ ~(\E k \in 1..Len(clean) : clean[k] \in Digit)
        THEN <<>>
        ELSE IF MatchesAny(valid_plate_patterns, clean)
        THEN <<"matches pattern">> ELSE <<"does not match">>

\* the lines one pass of the loop logs for a recognized text
CandidateLines(e, text, hypothesis) ==
    (IF e = Chaquopy THEN ValidateLines(text) ELSE <<>>)
    \o (IF e # Real /\ hypothesis # <<>> THEN <<"Valid plate detected">> ELSE <<>>)

\* one pass of the loop over the candidates.  A recognizer that raises is
\* caught inside RealALPR.extract_plate_text, which then returns ""; in the
\* other engines the exception leaves the loop for the handler of the call.
Candidate ==
    /\ pc = "candidates" /\ idx <= Len(text_regions)
    /\ \E rec \in Recognitions(engine, text_regions[idx]) :
        /\ ocr_log' = Append(ocr_log, rec)
        /\ IF ~rec.ok /\ engine # Real
           THEN /\ ret' = Caught(engine, entry)
                /\ pc' = "idle"
                /\ log(ErrorLines(engine))
                /\ UNCHANGED <<idx, detected_plates, threshold_reads>>
           ELSE LET hypothesis ==
                        Hypothesis(engine, text_regions[idx], rec.text,
                                   ImageArea(image), confidence_threshold)
                IN  /\ detected_plates' = detected_plates \o hypothesis
                    /\ idx' = idx + 1
                    /\ threshold_reads' =
                          IF engine = Real THEN threshold_reads
                          ELSE Append(threshold_reads, confidence_threshold)
                    /\ log(CandidateLines(engine, rec.text, hypothesis))
                    /\ UNCHANGED <<pc, ret>>
    /\ UNCHANGED <<engine, valid_plate_patterns, confidence_threshold, debug, entry, image,
                   text_regions, arg, hybrid, threshold_at_entry, other_thread>>

\* result['confidence'] = min(result['confidence'] * 1.1, 95.0)
Boost(p) == [p EXCEPT !.confidence = Min((p.confidence * 11) \div 10, 950)]

Above80(p) == p.confidence > 800

\* EnhancedOpenCVEngine.detect_and_recognize on the list RealALPR returns
PostProcess(op, results) ==
    CASE op = "opencv_aggressive" -> [k \in 1..Len(results) |-> Boost(results[k])]
      [] op = "opencv_conservative" -> SelectSeq(results, Above80)
      [] OTHER -> results

\* the end of a process call that also puts the threshold back to the
\* default of the constructor
FinishResetsThreshold ==
    /\ pc = "candidates" /\ idx > Len(text_regions)
    /\ LET sorted == SortByConfidence(detected_plates)
       IN  ret' = IF engine = Real
                  THEN List(entry, PostProcess(entry, sorted))
                  ELSE Success(entry, sorted, Len(text_regions))
    /\ pc' = "idle"
    /\ confidence_threshold' = InitialThreshold(engine)
    /\ log(IF engine = Real THEN <<>> ELSE <<"Processing completed">>)
    /\ UNCHANGED <<engine, valid_plate_patterns, debug, entry, image,
                   text_regions, idx, detected_plates, ocr_log, arg, hybrid,
                   flight>>

\* the end of a process call: the sort and the result
Finish ==
    /\ pc = "candidates" /\ idx > Len(text_regions)
    /\ LET sorted == SortByConfidence(detected_plates)
       IN  ret' = IF engine = Real
                  THEN List(entry, PostProcess(entry, sorted))
                  ELSE Success(entry, sorted, Len(text_regions))
    /\ pc' = "idle"
    /\ log(IF engine = Real THEN <<>> ELSE <<"Processing completed">>)
    /\ UNCHANGED <<engine, valid_plate_patterns, confidence_threshold, debug, entry, image,
                   text_regions, idx, detected_plates, ocr_log, arg, hybrid,
                   flight>>

\* the clamp left out: the argument is stored as given
StoredUnclamped(t) == IF t.kind = "nan" THEN 1000 ELSE t.value

\* max(0.0, min(100.0, threshold)) for a float argument.  Every comparison
\* with NaN is false, so min(100.0, NaN) is 100.0 and NaN stores 100.0.
Stored(t) == IF t.kind = "nan" THEN 1000 ELSE Max(0, Min(1000, t.value))

\* set_confidence_threshold(threshold): min() raises TypeError on a value
\* that is no number, before the assignment, and nothing catches it
set_confidence_threshold ==
    /\ engine = Chaquopy /\ pc = "idle" /\ ret = NoRet
    /\ \E t \in ThresholdArgs :
        /\ arg' = [op |-> "set_confidence_threshold", threshold |-> t]
        /\ IF t.kind # "text"
           THEN /\ confidence_threshold' = Stored(t)
                /\ ret' = [op |-> "set_confidence_threshold", kind |-> "dict",
                           success |-> TRUE, new_threshold |-> Stored(t)]
           ELSE /\ ret' = Raised("set_confidence_threshold")
                /\ UNCHANGED confidence_threshold
    /\ UNCHANGED <<engine, valid_plate_patterns, debug, pc, entry, image, text_regions, idx,
                   detected_plates, ocr_log, stdout, hybrid, flight>>

\* set_debug_mode(enabled)
set_debug_mode ==
    /\ engine = Chaquopy /\ pc = "idle" /\ ret = NoRet
    /\ \E enabled \in BOOLEAN :
        /\ arg' = [op |-> "set_debug_mode", enabled |-> enabled]
        /\ debug' = enabled
        /\ ret' = [op |-> "set_debug_mode", kind |-> "dict", success |-> TRUE,
                   debug_enabled |-> enabled]
    /\ UNCHANGED <<engine, valid_plate_patterns, confidence_threshold, pc, entry, image, text_regions,
                   idx, detected_plates, ocr_log, stdout, hybrid, flight>>

\* the caller takes the result; the frame of the call is gone
Receive ==
    /\ pc = "idle" /\ ret # NoRet
    /\ ret' = NoRet
    /\ arg' = NoArg
    /\ entry' = "none"
    /\ image' = NoImage
    /\ text_regions' = <<>>
    /\ idx' = 0
    /\ detected_plates' = <<>>
    /\ ocr_log' = <<>>
    /\ stdout' = <<>>
    /\ threshold_at_entry' = NoThreshold
    /\ threshold_reads' = <<>>
    /\ other_thread' = NoRet
    /\ UNCHANGED <<engine, valid_plate_patterns, confidence_threshold, debug, pc, hybrid>>

Init == \E e \in Engines : Constructed(e) /\ arg = NoArg /\ ret = NoRet

Next ==
    \/ Begin
    \/ Candidate
    \/ Finish
    \/ set_confidence_threshold
    \/ set_debug_mode
    \/ Receive

Spec == Init /\ [][Next]_vars

----------------------------------------------------------------------------
(* The module-level instance alpr_processor with no synchronization: while *)
(* one thread is inside a process call, another calls the setter.          *)

\* set_confidence_threshold(threshold) on another thread while the process
\* call is between two passes of its loop (before the first, after the
\* last): the assignment of line 350 is to the attribute the loop reads,
\* and the result goes to the other thread
set_confidence_threshold_in_flight ==
    /\ engine = Chaquopy /\ pc = "candidates"
    /\ \E t \in ThresholdArgs :
          IF t.kind # "text"
          THEN /\ confidence_threshold' = Stored(t)
               /\ other_thread' =
                     [op |-> "set_confidence_threshold", kind |-> "dict",
                      success |-> TRUE, new_threshold |-> Stored(t)]
          ELSE /\ other_thread' = Raised("set_confidence_threshold")
               /\ UNCHANGED confidence_threshold
    /\ UNCHANGED <<engine, valid_plate_patterns, debug, pc, entry, image,
                   text_regions, idx, detected_plates, ocr_log, arg, ret,
                   stdout, hybrid, threshold_at_entry, threshold_reads>>

\* the arguments of the module-level functions that process on
\* alpr_processor, the images being 1920 by 1080 with no box found twice
SharedArgs ==
    { a \in ProcessArgs(Chaquopy) :
        /\ a.op \in {"process_image_file", "process_image_bytes"}
        /\ a.src = "ok" => a.size = <<1920, 1080>>
        /\ \A j, k \in 1..Len(a.contours) :
              j # k => a.contours[j] # a.contours[k] }

\* process_image_file or process_image_bytes is called
BeginShared == Enter(SharedArgs)

InitShared == Constructed(Chaquopy) /\ arg = NoArg /\ ret = NoRet

NextShared ==
    \/ BeginShared
    \/ Candidate
    \/ Finish
    \/ set_confidence_threshold
    \/ set_confidence_threshold_in_flight
    \/ Receive

SpecShared == InitShared /\ [][NextShared]_vars

----------------------------------------------------------------------------
(* HybridALPREngine.process_with_best_engine.  An image is given by the    *)
(* list RealALPR.process_image reads in it; an EnhancedOpenCVEngine returns *)
(* that list as its mode changes it, or [] when its handler caught an      *)
(* exception.                                                               *)

Hybrid == "HybridALPREngine"

\* plates of a list RealALPR.process_image returns
MaxPlates == 2

\* the confidences of those plates: 70, exactly 80, and the cap
RealConfidences == {700, 800, 950}

RealPlate(c) ==
    Plate(Real, Region(Real, Contour(10, 10, 200, 60, 11000)),
          <<"A", "B", "C", "1", "2", "3">>, c)

\* the lists RealALPR.process_image returns: sorted by descending confidence
RealResults ==
    { q \in SeqsUpTo({RealPlate(c) : c \in RealConfidences}, MaxPlates) :
        \A k \in 1..(Len(q) - 1) : q[k].confidence >= q[k + 1].confidence }

\* the priority with opencv_standard moved to the front
engine_priority_standard_first ==
    <<"opencv_standard", "fast_plate_ocr", "opencv_aggressive",
      "opencv_conservative">>

\* engine_priority of process_with_best_engine
engine_priority ==
    <<"fast_plate_ocr", "opencv_aggressive", "opencv_standard",
      "opencv_conservative">>

\* _initialize_engines: the three OpenCV modes, and fast_plate_ocr when the
\* import of the library succeeds
InitializedEngines(fast_ocr_initialized) ==
    <<"opencv_standard", "opencv_aggressive", "opencv_conservative">>
    \o (IF fast_ocr_initialized THEN <<"fast_plate_ocr">> ELSE <<>>)

Available(engine_name) ==
    \E k \in 1..Len(available_engines) : available_engines[k] = engine_name

\* result['engine'] = name, for every result
Tagged(engine_name, results) ==
    [k \in 1..Len(results) |-> [engine |-> engine_name] @@ results[k]]

\* what engine.detect_and_recognize(image_path) can return: the placeholder
\* returns []; an OpenCV mode returns the list of RealALPR as the mode
\* changes it, or [] from its exception handlers
detect_and_recognize(engine_name, real_results) ==
    IF engine_name = "fast_plate_ocr" THEN { <<>> }
    ELSE { Tagged(engine_name, PostProcess(engine_name, real_results)), <<>> }

InitHybrid ==
    /\ engine = Hybrid
    /\ \E fast_ocr_initialized \in BOOLEAN :
          available_engines = InitializedEngines(fast_ocr_initialized)
    /\ invoked = <<>>
    /\ threshold_at_entry = NoThreshold
    /\ threshold_reads = <<>>
    /\ other_thread = NoRet
    /\ confidence_threshold = 0
    /\ debug = TRUE
    /\ valid_plate_patterns = <<>>
    /\ pc = "idle"
    /\ entry = "none"
    /\ image = NoImage
    /\ text_regions = <<>>
    /\ idx = 0
    /\ detected_plates = <<>>
    /\ ocr_log = <<>>
    /\ stdout = <<>>
    /\ arg = NoArg
    /\ ret = NoRet

HybridFrame ==
    UNCHANGED <<engine, valid_plate_patterns, confidence_threshold, debug,
                entry, image, text_regions, detected_plates, ocr_log, stdout,
                available_engines, flight>>

\* process_with_best_engine(image_path) is called
BestBegin ==
    /\ pc = "idle" /\ ret = NoRet
    /\ \E real_results \in RealResults :
          arg' = [op |-> "process_with_best_engine", results |-> real_results]
    /\ idx' = 1
    /\ invoked' = <<>>
    /\ pc' = "best"
    /\ UNCHANGED ret
    /\ HybridFrame

\* one pass of the loop over engine_priority
BestTry ==
    /\ pc = "best" /\ idx <= Len(engine_priority)
    /\ LET engine_name == engine_priority[idx]
       IN  IF ~Available(engine_name)
           THEN /\ idx' = idx + 1
                /\ UNCHANGED <<invoked, ret, pc>>
           ELSE \E results \in detect_and_recognize(engine_name, arg.results) :
                  /\ invoked' = Append(invoked, [engine |-> engine_name,
                                                 results |-> results])
                  /\ IF results # <<>>
                     THEN /\ ret' = List("process_with_best_engine", results)
                          /\ pc' = "idle"
                          /\ UNCHANGED idx
                     ELSE /\ idx' = idx + 1
                          /\ UNCHANGED <<ret, pc>>
    /\ UNCHANGED arg
    /\ HybridFrame

\* the loop ended with no result: return []
BestNone ==
    /\ pc = "best" /\ idx > Len(engine_priority)
    /\ ret' = List("process_with_best_engine", <<>>)
    /\ pc' = "idle"
    /\ UNCHANGED <<arg, idx, invoked>>
    /\ HybridFrame

NextHybrid ==
    \/ BestBegin
    \/ BestTry
    \/ BestNone
    \/ Receive

SpecHybrid == InitHybrid /\ [][NextHybrid]_vars

----------------------------------------------------------------------------
(* Properties of the scorers.                                              *)

Scored == ret.op = "calculate_confidence"

\* C1: every scorer (strict, permissive, RealALPR) returns a value in
\* [0, 95] for every text, positive areas and every aspect ratio.
C1_ScoreInRange == Scored => (0 <= ret.value /\ ret.value <= 950)

\* a strict score that the final clamp cut back to 95
C1_Witness ==
    /\ Scored /\ engine = Chaquopy /\ ret.value = 950
    /\ ChaquopyScoreNoClamp(arg.text, arg.bbox_area, arg.image_area, arg.w, arg.h) > 950

\* C2: in the strict profile a text that validate_plate_format rejects
\* scores exactly 0 whatever the area, the image area and the aspect ratio,
\* so it is below every threshold greater than 0.
C2_StrictInvalidScoresZero ==
    (Scored /\ engine = Chaquopy /\ ~ChaquopyValidate(arg.text))
        => (ret.value = 0 /\ \A t \in 1..1000 : ~(ret.value >= t))

\* a rejected text in a region whose size, aspect ratio and length earn
\* every bonus
C2_Witness ==
    /\ Scored /\ engine = Chaquopy /\ ~ChaquopyValidate(arg.text)
    /\ Len(arg.text) = 5
    /\ arg.bbox_area = 3000 /\ arg.image_area = 921600 /\ arg.w = 200 /\ arg.h = 60

----------------------------------------------------------------------------
(* Properties of the validators.                                           *)

Validated == ret.op = "validate_plate_format"

\* the normalisation of a text: upper case, characters outside A-Z0-9 removed
normalize(s) ==
    LET up == [k \in 1..Len(s) |-> UpperChar(s[k])]
        keep(c) == c \in AZ \cup Digit
    IN  SelectSeq(up, keep)

\* C13: validate_plate_format(s) equals validate_plate_format(normalize(s))
\* for the strict and the permissive validator, also when the raw and the
\* normalized length lie on different sides of a length bound.
C13_ValidateNormalized ==
    (Validated /\ engine \in {Chaquopy, Mobile}) =>
        ret.value = validate_plate_format(engine, normalize(arg.text))

\* the strict validator accepts a text of raw length 9 whose
\* normalization has 7 characters
C13_Witness ==
    /\ Validated /\ engine = Chaquopy /\ ret.value
    /\ Len(arg.text) > 8 /\ Len(normalize(arg.text)) <= 8
    /\ validate_plate_format(engine, normalize(arg.text))

\* the grammar of 2-3 letters followed by 3-4 digits
LettersDigits(s) ==
    \E n \in 2..3 :
        /\ Len(s) - n \in 3..4
        /\ \A k \in 1..n : s[k] \in AZ
        /\ \A k \in (n + 1)..Len(s) : s[k] \in Digit

\* C14: "abc-123 " normalizes to "ABC123" and the strict validator accepts
\* it; every text whose normalization is 2-3 letters followed by 3-4 digits
\* is accepted by the strict validator.
C14_LettersDigitsAccepted ==
    (Validated /\ engine = Chaquopy) =>
        /\ arg.text = <<"a", "b", "c", "-", "1", "2", "3", " ">> =>
              /\ plate_clean(arg.text) = <<"A", "B", "C", "1", "2", "3">>
              /\ ret.value
        /\ LettersDigits(normalize(arg.text)) => ret.value

\* the strict validator was given "abc-123 " and accepted it
C14_Witness ==
    /\ Validated /\ engine = Chaquopy
    /\ arg.text = <<"a", "b", "c", "-", "1", "2", "3", " ">>
    /\ ret.value

\* C18: the length step of the strict and the permissive scorer is decided
\* by the length of the normalized text, so a text scores what its
\* normalization scores for the same region (two texts of the same
\* normalization score the same).
C18_LengthOfNormalized ==
    (Scored /\ engine \in {Chaquopy, Mobile}) =>
        ret.value = calculate_confidence(engine, normalize(arg.text), arg.bbox_area,
                                         arg.image_area, arg.w, arg.h)

----------------------------------------------------------------------------
(* Properties of the extractors.                                           *)

Detected == ret.op = "detect_text_regions"

\* the candidates of the contours that pass the filter, in contour order
Survivors(e, img) ==
    LET keep(c) == Keeps(e, c, ImageArea(img))
        kept == SelectSeq(img.contours, keep)
    IN  [k \in 1..Len(kept) |-> Region(e, kept[k])]

RemoveAt(seq, i) == SubSeq(seq, 1, i - 1) \o SubSeq(seq, i + 1, Len(seq))

\* the first n of pool by repeated selection of the earliest entry of
\* greatest area
RECURSIVE SelectTop(_, _)
SelectTop(pool, n) ==
    IF n = 0 \/ pool = <<>> THEN <<>>
    ELSE LET best == CHOOSE i \in 1..Len(pool) :
                        \A j \in 1..Len(pool) :
                            \/ pool[j].area < pool[i].area
                            \/ (pool[j].area = pool[i].area /\ i <= j)
         IN  <<pool[best]>> \o SelectTop(RemoveAt(pool, best), n - 1)

\* C6: extraction returns at most maxCandidates entries (3 strict and
\* RealALPR, 5 permissive), by area descending with equal areas in contour
\* order, and they are exactly the largest-area survivors of the filter.
C6_TopCandidates ==
    Detected =>
        LET limit == IF engine = Mobile THEN 5 ELSE 3
            res == ret.value
        IN  /\ Len(res) <= limit
            /\ \A p \in 1..(Len(res) - 1) : res[p].area >= res[p + 1].area
            /\ res = SelectTop(Survivors(engine, arg.img), limit)

\* the permissive extractor cuts six or more survivors, given out of area
\* order and with two different boxes of equal area, down to five
C6_Witness ==
    /\ Detected /\ engine = Mobile
    /\ Len(Survivors(engine, arg.img)) > 5
    /\ Len(ret.value) = 5
    /\ ret.value # Take(Survivors(engine, arg.img), 5)
    /\ \E p \in 1..4 : /\ ret.value[p].area = ret.value[p + 1].area
                       /\ ret.value[p] # ret.value[p + 1]

\* C7: every candidate the strict extractor returns has aspect ratio within
\* 2.0-6.0, area above 2000, size ratio within 0.002-0.05, width >= 80 and
\* height >= 20; a contour of bounding height 0 is never returned.
C7_StrictFilter ==
    (Detected /\ engine = Chaquopy) =>
        \A p \in 1..Len(ret.value) :
            LET r == ret.value[p]
                image_area == arg.img.width * arg.img.height
            IN  /\ r.h # 0
                /\ 2 * r.h < r.w /\ r.w < 6 * r.h
                /\ r.area > 2000
                /\ 1000 * r.area > 2 * image_area /\ 100 * r.area < 5 * image_area
                /\ r.w >= 80 /\ r.h >= 20

\* the strict extractor keeps a candidate of an image that also holds a
\* contour of height 0 and one that fails only the minimum width
C7_Witness ==
    /\ Detected /\ engine = Chaquopy
    /\ Len(ret.value) >= 1
    /\ \E k \in 1..Len(arg.img.contours) : arg.img.contours[k].h = 0
    /\ \E k \in 1..Len(arg.img.contours) :
          /\ ChaquopyKeepsNoMinDims(arg.img.contours[k], ImageArea(arg.img))
          /\ arg.img.contours[k].w < 80

----------------------------------------------------------------------------
(* Properties of the process calls.                                        *)

\* a process call has returned
Returned == pc = "idle" /\ ret.op \in ProcessOps

\* a process call has returned a result that carries a list of plates
ReturnedPlates ==
    Returned /\ (ret.kind = "list" \/ (ret.kind = "dict" /\ ret.success))

ResultPlates == IF ret.kind = "list" THEN ret.results ELSE ret.plates_detected

\* C3: every successful result list of a process call (strict, permissive,
\* RealALPR and the aggressive and conservative modes around it) is sorted
\* by descending confidence.
C3_SortedByConfidence ==
    ReturnedPlates =>
        \A p \in 1..(Len(ResultPlates) - 1) :
            ResultPlates[p].confidence >= ResultPlates[p + 1].confidence

\* the aggressive mode returns two plates of different confidence that were
\* accepted in the opposite order
C3_Witness ==
    /\ ReturnedPlates /\ ret.op = "opencv_aggressive"
    /\ Len(ResultPlates) >= 2
    /\ ResultPlates[1].confidence > ResultPlates[2].confidence
    /\ \E p \in 1..(Len(detected_plates) - 1) :
          detected_plates[p].confidence < detected_plates[p + 1].confidence

\* C4: every hypothesis in plates_detected of a successful result scores at
\* least the confidence_threshold of the instance (strict and permissive).
C4_AboveThreshold ==
    (Returned /\ ret.kind = "dict" /\ ret.success) =>
        \A p \in 1..Len(ret.plates_detected) :
            ret.plates_detected[p].confidence >= confidence_threshold

\* the strict engine reports a plate that scores exactly the threshold
C4_Witness ==
    /\ Returned /\ ret.kind = "dict" /\ ret.success
    /\ engine = Chaquopy /\ confidence_threshold = 950
    /\ Len(ret.plates_detected) >= 1
    /\ ret.plates_detected[1].confidence = 950

\* C5: with the threshold at 100, every process call on a loadable image
\* returns success = true and an empty plates_detected.
C5_Threshold100Empty ==
    (Returned /\ engine = Chaquopy /\ arg.src = "ok" /\ confidence_threshold = 1000)
        => (ret.kind = "dict" /\ ret.success /\ ret.plates_detected = <<>>)

\* C8: every public entry point returns a structured result (a record with
\* a success flag, or a list) for any argument; no call ends in an
\* exception.
C8_AlwaysStructured ==
    (ret # NoRet /\ ret.op \in ProcessOps \cup {"set_confidence_threshold", "set_debug_mode"})
        => (ret.kind = "list" \/ (ret.kind = "dict" /\ ret.success \in BOOLEAN))

LoadFailed == Returned /\ arg.src \in {"empty", "garbage"}

NothingExamined ==
    /\ text_regions = <<>> /\ detected_plates = <<>> /\ ocr_log = <<>>
    /\ image = NoImage

\* C9 as stated: an empty, zero-byte or undecodable image gives success =
\* false with error "InvalidImage", and no candidate is examined.
C9_InvalidImageError ==
    (LoadFailed /\ engine # Real) =>
        /\ ret.kind = "dict" /\ ~ret.success /\ ret.error = "InvalidImage"
        /\ NothingExamined

\* C9 as amended: an empty, zero-byte or undecodable image gives success =
\* false with the message of the entry point ("Unable to load image",
\* "Image file not found", "Unable to decode image bytes" or the text of the
\* exception), RealALPR an empty list; no candidate is examined and no plate
\* is reported.
C9_LoadFailureReported ==
    LoadFailed =>
        /\ NothingExamined
        /\ IF engine = Real THEN ret = List(ret.op, <<>>)
           ELSE /\ ret.kind = "dict" /\ ~ret.success
                /\ ret.error \in
                     CASE ret.op = "process_image_file" -> {"Unable to load image"}
                       [] ret.op = "process_image_bytes" ->
                            IF arg.src = "empty"
                            THEN {"Unable to decode image bytes", ExcText}
                            ELSE {"Unable to decode image bytes"}
                       [] ret.op = "process_image_array" -> {ExcText}
                       [] ret.op = "process_image" ->
                            IF arg.src = "empty" THEN {"Image file not found"}
                            ELSE {"Unable to load image"}

\* process_image_file returns the load failure for an undecodable file
C9_Witness ==
    /\ LoadFailed /\ ret.op = "process_image_file" /\ arg.src = "garbage"
    /\ ret.error = "Unable to load image"

\* the answer of the recognizer for candidate k was a failure: it raised or
\* returned the empty string
RecognitionFailed(k) == ~ocr_log[k].ok \/ ocr_log[k].text = <<>>

\* the hypotheses of the candidates whose recognition succeeded
RECURSIVE HypothesesOfRecognized(_)
HypothesesOfRecognized(k) ==
    IF k = 0 THEN <<>>
    ELSE HypothesesOfRecognized(k - 1) \o
         (IF RecognitionFailed(k) THEN <<>>
          ELSE Hypothesis(engine, text_regions[k], ocr_log[k].text,
                          ImageArea(image), confidence_threshold))

\* C10: when the recognizer raises or returns the empty string for one
\* candidate, only that candidate is dropped: the call succeeds and reports
\* the other candidates as if the failing one had not been extracted.
C10_RecognitionFailureDropsOne ==
    (Returned /\ \E k \in 1..Len(ocr_log) : RecognitionFailed(k)) =>
        /\ ReturnedPlates
        /\ Len(ocr_log) = Len(text_regions)
        /\ ResultPlates =
             PostProcess(ret.op, SortByConfidence(HypothesesOfRecognized(Len(ocr_log))))

\* a process call was given a decodable image
Loaded == arg.op \in ProcessOps /\ arg.src = "ok"

\* C15: an image no wider than 1280 is processed at its original size; a
\* wider one is processed at width exactly 1280 and a height within 1 pixel
\* of H * 1280 / W, and the call proceeds to extraction.
C15_ResizeProportional ==
    Loaded =>
        LET W == arg.size[1]
            H == arg.size[2]
        IN  IF W <= 1280
            THEN image.width = W /\ image.height = H
            ELSE /\ image # NoImage
                 /\ image.width = 1280
                 /\ (image.height - 1) * W <= H * 1280
                 /\ H * 1280 <= (image.height + 1) * W

\* the resize of a decoded image raised: no processed image exists
ResizeFailed == Loaded /\ image = NoImage

\* the recognizer raised out of the loop over the candidates
RecognizerRaised ==
    /\ Loaded /\ engine # Real
    /\ \E k \in 1..Len(ocr_log) : ~ocr_log[k].ok

\* C16: when a step of a process call fails after k candidates were
\* accepted, the remaining candidates are not processed and the call returns
\* a failure result (success = false with an error message; the empty list
\* in RealALPR, whose results carry no flag) with none of the accepted
\* hypotheses; no result has success = false and a plate list, nor success
\* = true after a failed step.
C16_FailureAborts ==
    /\ (ResizeFailed \/ RecognizerRaised) =>
          /\ pc = "idle"
          /\ IF engine = Real THEN ret = List(arg.op, <<>>)
             ELSE /\ ret.kind = "dict" /\ ~ret.success
                  /\ "error" \in DOMAIN ret
                  /\ "plates_detected" \notin DOMAIN ret
    /\ RecognizerRaised =>
          /\ Len(ocr_log) = idx /\ ~ocr_log[idx].ok
          /\ \A k \in 1..(idx - 1) : ocr_log[k].ok
    /\ (Returned /\ ret.kind = "dict") =>
          /\ ret.success => ~(ResizeFailed \/ RecognizerRaised)
          /\ ~ret.success => "plates_detected" \notin DOMAIN ret

\* the strict engine had accepted a hypothesis when the recognizer raised
\* on the second of three candidates
C16_Witness ==
    /\ RecognizerRaised /\ engine = Chaquopy
    /\ idx = 2 /\ Len(text_regions) = 3
    /\ Len(detected_plates) = 1
    /\ ret.kind = "dict" /\ ~ret.success

\* whether candidate k is accepted, by its score and the threshold alone
Accepts(k) ==
    LET r == text_regions[k]
        text == ocr_log[k].text
        confidence == calculate_confidence(engine, text, r.area,
                                           ImageArea(image), r.w, r.h)
    IN  /\ confidence >= confidence_threshold
        /\ engine = Mobile => MobileValidate(text)

\* the hypotheses of the first k candidates, by Accepts
RECURSIVE AcceptedUpTo(_)
AcceptedUpTo(k) ==
    IF k = 0 THEN <<>>
    ELSE LET r == text_regions[k]
             text == ocr_log[k].text
             confidence == calculate_confidence(engine, text, r.area,
                                                ImageArea(image), r.w, r.h)
         IN  AcceptedUpTo(k - 1) \o
             (IF Accepts(k) THEN <<Plate(engine, r, text, confidence)>> ELSE <<>>)

\* the decisions and the result of a strict or permissive process call are
\* those the image, the threshold and the recognizer's answers determine,
\* whatever the debug flag is
SameResult ==
    (Loaded /\ engine \in {Chaquopy, Mobile}) =>
        /\ (pc = "candidates" \/ (Returned /\ ret.kind = "dict" /\ ret.success)) =>
              /\ \A k \in 1..Len(ocr_log) : ocr_log[k].ok
              /\ detected_plates = AcceptedUpTo(Len(ocr_log))
        /\ (Returned /\ ret.kind = "dict") =>
              /\ ret.success <=> ~(ResizeFailed \/ RecognizerRaised)
              /\ ret.success =>
                    /\ ret.regions_analyzed = Len(detect_text_regions(engine, image))
                    /\ ret.plates_detected = SortByConfidence(AcceptedUpTo(Len(ocr_log)))

\* the step is a call of set_debug_mode
DebugSet == ret = NoRet /\ ret' # NoRet /\ ret'.op = "set_debug_mode"

\* C17: a process call takes the same accept/reject decisions and returns
\* the same success flag, regions_analyzed and plates_detected with debug
\* logging enabled as with it disabled; set_debug_mode changes only the
\* debug flag.
C17_DebugNoEffect ==
    /\ []SameResult
    /\ [][DebugSet =>
            /\ debug' = arg'.enabled
            /\ UNCHANGED <<engine, valid_plate_patterns, confidence_threshold, pc, entry, image,
                           text_regions, idx, detected_plates, ocr_log,
                           stdout, hybrid, flight>>]_vars

\* with logging disabled the strict engine printed nothing and reported a
\* plate
C17_Witness ==
    /\ Returned /\ engine = Chaquopy /\ ~debug
    /\ ret.kind = "dict" /\ ret.success
    /\ Len(ret.plates_detected) >= 1
    /\ stdout = <<>>

\* the score the strict engine gives a candidate for the text its placeholder
\* recognizer reads from it
PlaceholderScore(r) ==
    ChaquopyScore(extract_text_basic_ocr(r), r.area, ImageArea(image), r.w, r.h)

\* C22: in the strict engine every extracted candidate scores exactly 95 for
\* the table string the placeholder recognizer returns; hence a successful
\* result under a threshold of at most 95 reports as many plates as regions
\* analyzed, at most 3, each with confidence 95.
C22_PlaceholderScores95 ==
    engine = Chaquopy =>
        /\ pc = "candidates" =>
              \A k \in 1..Len(text_regions) :
                  PlaceholderScore(text_regions[k]) = 950
        /\ (Returned /\ ret.kind = "dict" /\ ret.success
                /\ confidence_threshold <= 950) =>
              /\ Len(ret.plates_detected) = ret.regions_analyzed
              /\ ret.regions_analyzed <= 3
              /\ \A p \in 1..Len(ret.plates_detected) :
                    ret.plates_detected[p].confidence = 950

\* under the threshold 95 the strict engine analyzed three regions, one read
\* from each table of the placeholder, and reported three plates
C22_Witness ==
    /\ Returned /\ engine = Chaquopy /\ ret.kind = "dict" /\ ret.success
    /\ confidence_threshold = 950
    /\ ret.regions_analyzed = 3 /\ Len(ret.plates_detected) = 3
    /\ \E k \in 1..Len(text_regions) : text_regions[k].w * text_regions[k].h > 5000
    /\ \E k \in 1..Len(text_regions) : text_regions[k].w * text_regions[k].h <= 5000

----------------------------------------------------------------------------
(* Properties of the configuration setters.                                *)

\* the step is a call of set_confidence_threshold that has ended
ThresholdSet ==
    ret = NoRet /\ ret' # NoRet /\ ret'.op = "set_confidence_threshold"

\* C11: a malformed threshold (a value that is no number, or NaN) is
\* rejected before being applied: the setter reports the failure in its
\* result and confidence_threshold keeps the value it had before the call.
C11_MalformedRejected ==
    [][(ThresholdSet /\ arg'.threshold.kind # "number") =>
           /\ ret'.kind = "dict" /\ ~ret'.success
           /\ confidence_threshold' = confidence_threshold]_vars

\* C12: confidence_threshold always lies in [0, 100]; a numeric argument
\* in range is stored unchanged, one below 0 stores 0, one above 100 stores
\* 100, and the returned new_threshold is the stored value.
C12_ThresholdClamped ==
    /\ 0 <= confidence_threshold /\ confidence_threshold <= 1000
    /\ (ret.op = "set_confidence_threshold" /\ arg.threshold.kind = "number") =>
          LET v == arg.threshold.value
          IN  /\ confidence_threshold =
                    (IF v < 0 THEN 0 ELSE IF v > 1000 THEN 1000 ELSE v)
              /\ ret.kind = "dict" /\ ret.success
              /\ ret.new_threshold = confidence_threshold

\* the setter was given 120 and stored 100
C12_Witness ==
    /\ ret.op = "set_confidence_threshold" /\ arg.threshold.kind = "number"
    /\ arg.threshold.value = 1200
    /\ confidence_threshold = 1000 /\ ret.new_threshold = 1000

\* C19: confidence_threshold, the debug flag and the plate patterns of an
\* instance change only through the setters: they start at the values of
\* the constructor (threshold 85 strict, 60 permissive), every step of a
\* process call, failed or not, leaves all three unchanged, and a setter
\* leaves the threshold at the value it returns; so the threshold is always
\* that of the last successful setter call, or the default.
C19_ConfigOnlyBySetters ==
    /\ confidence_threshold = InitialThreshold(engine)
    /\ debug = TRUE
    /\ valid_plate_patterns = InitialPatterns(engine)
    /\ engine = Chaquopy => confidence_threshold = 850
    /\ engine = Mobile => confidence_threshold = 600
    /\ [][/\ valid_plate_patterns' = valid_plate_patterns
          /\ ~ThresholdSet => confidence_threshold' = confidence_threshold
          /\ ~DebugSet => debug' = debug
          /\ (ThresholdSet /\ ret'.kind = "dict") =>
                confidence_threshold' = ret'.new_threshold]_vars

\* a failed process call returned while the threshold was the 95 a setter
\* had stored
C19_Witness ==
    /\ Returned /\ engine = Chaquopy
    /\ ret.kind = "dict" /\ ~ret.success
    /\ confidence_threshold = 950

----------------------------------------------------------------------------
(* Properties of the unsynchronized instance.                              *)

\* the strict process call is in its loop or has returned a success
InLoopOrDone ==
    /\ engine = Chaquopy
    /\ pc = "candidates" \/ (Returned /\ ret.kind = "dict" /\ ret.success)

\* the hypotheses of the first k candidates of the strict engine when
\* candidate j is filtered against reads[j]
RECURSIVE FilteredUpTo(_, _)
FilteredUpTo(k, reads) ==
    IF k = 0 THEN <<>>
    ELSE LET r == text_regions[k]
             text == ocr_log[k].text
             confidence == calculate_confidence(engine, text, r.area,
                                                ImageArea(image), r.w, r.h)
         IN  FilteredUpTo(k - 1, reads) \o
             (IF confidence >= reads[k]
              THEN <<Plate(engine, r, text, confidence)>> ELSE <<>>)

\* n reads of the one value v
Uniform(v, n) == [k \in 1..n |-> v]

\* C21: on alpr_processor each candidate is filtered against the value
\* confidence_threshold holds at its pass of the loop (the attribute is read
\* again per candidate); when no setter runs during a process call, every
\* candidate of the call is filtered against the one value held at entry,
\* and the result is the one that value gives.
C21_ThresholdPerCandidate ==
    /\ [](InLoopOrDone =>
            /\ Len(threshold_reads) = Len(ocr_log)
            /\ detected_plates = FilteredUpTo(Len(ocr_log), threshold_reads)
            /\ other_thread = NoRet =>
                  /\ threshold_reads = Uniform(threshold_at_entry, Len(ocr_log))
                  /\ Returned =>
                        ret.plates_detected =
                            SortByConfidence(
                                FilteredUpTo(Len(ocr_log),
                                             Uniform(threshold_at_entry,
                                                     Len(ocr_log)))))
    /\ [][(engine = Chaquopy /\ Len(threshold_reads') > Len(threshold_reads)) =>
            threshold_reads' = Append(threshold_reads, confidence_threshold)]_vars

\* a setter ran on another thread between two candidates of a process call:
\* the candidates were filtered against different values, and the result
\* returned is not the one any of the values read, or the value at entry,
\* gives for all candidates
C21_Witness ==
    /\ Returned /\ engine = Chaquopy /\ ret.kind = "dict" /\ ret.success
    /\ other_thread # NoRet
    /\ \E j, k \in 1..Len(threshold_reads) :
          threshold_reads[j] # threshold_reads[k]
    /\ \A v \in {threshold_at_entry}
                 \cup {threshold_reads[k] : k \in 1..Len(threshold_reads)} :
          ret.plates_detected #
              SortByConfidence(FilteredUpTo(Len(ocr_log),
                                           Uniform(v, Len(ocr_log))))

----------------------------------------------------------------------------
(* Properties of the hybrid engine.                                        *)

\* the place of an engine in the order fast_plate_ocr, opencv_aggressive,
\* opencv_standard, opencv_conservative
Rank(engine_name) ==
    CASE engine_name = "fast_plate_ocr" -> 1
      [] engine_name = "opencv_aggressive" -> 2
      [] engine_name = "opencv_standard" -> 3
      [] engine_name = "opencv_conservative" -> 4

BestReturned == pc = "idle" /\ ret.op = "process_with_best_engine"

\* C20: process_with_best_engine invokes the available engines in the order
\* fast_plate_ocr, opencv_aggressive, opencv_standard, opencv_conservative,
\* each only after every available engine before it returned an empty list;
\* it returns the list of the first engine that returned a non-empty one,
\* and an empty list only when every available engine returned empty.
C20_BestEnginePriority ==
    /\ \A j \in 1..Len(invoked) :
          /\ Available(invoked[j].engine)
          /\ \A i \in 1..(j - 1) :
                /\ Rank(invoked[i].engine) < Rank(invoked[j].engine)
                /\ invoked[i].results = <<>>
          /\ \A k \in 1..Len(available_engines) :
                Rank(available_engines[k]) < Rank(invoked[j].engine) =>
                    \E i \in 1..(j - 1) : invoked[i].engine = available_engines[k]
    /\ BestReturned =>
          IF ret.results # <<>>
          THEN /\ invoked # <<>>
               /\ invoked[Len(invoked)].results = ret.results
          ELSE /\ \A k \in 1..Len(available_engines) :
                     \E i \in 1..Len(invoked) :
                         invoked[i].engine = available_engines[k]
               /\ \A i \in 1..Len(invoked) : invoked[i].results = <<>>

\* opencv_standard gave the result after fast_plate_ocr and
\* opencv_aggressive had returned empty lists
C20_Witness ==
    /\ BestReturned /\ ret.results # <<>>
    /\ Len(invoked) = 3
    /\ invoked[1].engine = "fast_plate_ocr"
    /\ invoked[2].engine = "opencv_aggressive"
    /\ invoked[3].engine = "opencv_standard"
    /\ ret.results[1].engine = "opencv_standard"

====
